---- MODULE Spec2Model ----
(***************************************************************************)
(* Model of generate_release.py: the release generator of the BatteryDaddy *)
(* adapters.  One process run is main(): it names a release directory from *)
(* the wall clock, creates it, runs the two generation loops over the      *)
(* compatibility tables (one OpenSCAD invocation per pair), copies the     *)
(* .scad sources and the README, writes MANIFEST.txt and returns the exit  *)
(* status.  The file system, the wall clock and the OpenSCAD executable    *)
(* are the environment.                                                    *)
(***************************************************************************)
EXTENDS Integers, Sequences, FiniteSets, TLC

(***************************************************************************)
(* Bounds of the model.                                                    *)
(***************************************************************************)
\* the wall clock is counted in ticks; it stops at MaxClock
MaxClock == 3
\* ticks per wall-clock second (strftime keeps whole seconds only)
TicksPerSecond == 2
\* number of process runs started one after the other (SpecRuns)
MaxRuns == 2

(***************************************************************************)
(* Compatibility tables.  A Python dict keeps insertion order, so a table  *)
(* is the sequence of its (battery, hosts) items.                          *)
(***************************************************************************)
BUTTON_CELL_COMPAT ==
    << <<"CR2450", <<"D">> >>,
       <<"CR2032", <<"D", "C">> >>,
       <<"CR2016", <<"D", "C">> >>,
       <<"CR1632", <<"D", "C">> >>,
       <<"CR1616", <<"D", "C">> >> >>

CYLINDER_COMPAT ==
    << <<"A27",  <<"D", "C">> >>,
       <<"AAAA", <<"D", "C">> >> >>

\* the battery and the host list of the i-th item of a table
BatteryAt(table, i) == table[i][1]
HostsAt(table, i) == table[i][2]

\* sum(len(hosts) for hosts in table.values())
RECURSIVE SumHostsFrom(_, _)
SumHostsFrom(table, i) ==
    IF i > Len(table) THEN 0
    ELSE Len(HostsAt(table, i)) + SumHostsFrom(table, i + 1)

SumHosts(table) == SumHostsFrom(table, 1)

(***************************************************************************)
(* The nested for loops: a position <<i, j>> is the pair about to be       *)
(* attempted, item i of the table and host j of its list; i = Len + 1 is   *)
(* the end of the outer loop.                                              *)
(***************************************************************************)
\* the first position at or after item i whose host list is not empty
RECURSIVE FirstFrom(_, _)
FirstFrom(table, i) ==
    IF i > Len(table) THEN <<Len(table) + 1, 1>>
    ELSE IF Len(HostsAt(table, i)) = 0 THEN FirstFrom(table, i + 1)
    ELSE <<i, 1>>

\* a plausible slip: the inner loop stops one host early on a two-host list
NextPosSkipLast(table, p) == FirstFrom(table, p[1] + 1)

\* the position after p: the next host of the list, else the next item
NextPos(table, p) ==
    IF p[2] < Len(HostsAt(table, p[1])) THEN <<p[1], p[2] + 1>>
    ELSE FirstFrom(table, p[1] + 1)

AtEnd(table, p) == p[1] > Len(table)

\* a plausible slip: the host is left out of the file name
OutputNameNoHost(battery, host) == battery \o ".stl"

\* f"{battery}-{host}.stl"
OutputName(battery, host) == battery \o "-" \o host \o ".stl"

\* f'"{x}"': a label wrapped in literal quote characters
Quoted(x) == "\"" \o x \o "\""

\* the params dict of each loop, as its ordered items
ButtonParams(battery, host) ==
    << <<"battery_label", Quoted(battery)>>,
       <<"host_battery_type", Quoted(host)>> >>

CylinderParams(battery, host) ==
    << <<"battery_type", Quoted(battery)>>,
       <<"host_battery_type", Quoted(host)>> >>

\* the params of the loop that runs over the given table
ParamsFor(table, battery, host) ==
    IF table = BUTTON_CELL_COMPAT THEN ButtonParams(battery, host)
    ELSE CylinderParams(battery, host)

\* a path is the sequence of its components; str(path) joins them with "/"
RECURSIVE PathStr(_)
PathStr(path) ==
    IF Len(path) = 0 THEN ""
    ELSE IF Len(path) = 1 THEN path[1]
    ELSE path[1] \o "/" \o PathStr(Tail(path))

\* the -D arguments of run_openscad, one pair of words per parameter
RECURSIVE DefineArgs(_)
DefineArgs(params) ==
    IF Len(params) = 0 THEN <<>>
    ELSE <<"-D", params[1][1] \o "=" \o params[1][2]>> \o DefineArgs(Tail(params))

\* the command line run_openscad builds
Cmd(scad_file, output_file, params) ==
    <<"openscad", "-o", PathStr(output_file)>> \o DefineArgs(params)
        \o <<PathStr(scad_file)>>

(***************************************************************************)
(* run_openscad.  The environment's answer to subprocess.run is "exit0",   *)
(* "nonzero" (CalledProcessError, because of check=True) or "notfound"     *)
(* (FileNotFoundError: no openscad executable on the path).  The result is *)
(* <<kind, success>>: kind "return" with the success flag, or "raise" when *)
(* the exception is not the one the except clause names.                   *)
(***************************************************************************)
\* a plausible slip: no except clause, a nonzero exit propagates
run_openscad_uncaught(answer) ==
    IF answer = "exit0" THEN <<"return", TRUE>> ELSE <<"raise", FALSE>>

run_openscad(answer) ==
    IF answer = "exit0" THEN <<"return", TRUE>>
    ELSE IF answer = "nonzero" THEN <<"return", FALSE>>
    ELSE <<"raise", FALSE>>

\* the answers an OpenSCAD installation can give to one invocation
Answers(t) ==
    IF t = "missing" THEN {"notfound"}
    ELSE IF t = "ok" THEN {"exit0"}
    ELSE IF t = "fail" THEN {"nonzero"}
    ELSE {"exit0", "nonzero"}

\* a plausible slip: a failure is tallied as a success
TallyAllSuccess(success, counts) == <<counts[1] + 1, counts[2]>>

\* if success: success_count += 1 else: fail_count += 1
Tally(success, counts) ==
    IF success THEN <<counts[1] + 1, counts[2]>>
    ELSE <<counts[1], counts[2] + 1>>

(***************************************************************************)
(* main                                                                    *)
(***************************************************************************)
\* a plausible slip: the release name does not depend on the time
ReleaseNameFixed(t) == "Release-" \o ToString(0)

\* datetime.now().strftime("Release-%Y-%m-%d_%H%M%S"): whole seconds
ReleaseName(t) == "Release-" \o ToString(t \div TicksPerSecond)

ReleaseDir(name) == <<"releases", name>>
StlDir(name) == <<"releases", name, "stls">>

\* Path(".").glob("*.scad"): the templates of the working directory
ScadFiles == {"button_cell_adapter.scad", "cylinder_battery_adapter.scad"}

\* a plausible slip: the error of a file operation is swallowed
UncaughtSwallowed(ok, next) == next

\* no try/except in main: a failed file operation ends the run
Uncaught(ok, next) == IF ok THEN next ELSE "aborted"

\* a plausible slip: the status ignores the failures
ExitStatusZero(total_fail) == 0

\* return 0 if total_fail == 0 else 1
ExitStatus(total_fail) == IF total_fail = 0 THEN 0 ELSE 1

(***************************************************************************)
(* create_manifest: the static listing of the manifest text, line by line, *)
(* and the two computed figures.                                           *)
(***************************************************************************)
ManifestListing ==
    << <<"CR2450-D.stl">>,
       <<"CR2032-D.stl", "CR2032-C.stl">>,
       <<"CR2016-D.stl", "CR2016-C.stl">>,
       <<"CR1632-D.stl", "CR1632-C.stl", "CR1632-AA.stl">>,
       <<"CR1616-D.stl", "CR1616-C.stl", "CR1616-AA.stl">>,
       <<"A27-D.stl", "A27-C.stl">>,
       <<"AAAA-D.stl", "AAAA-C.stl">> >>

VARIABLES
    clock,            \* the wall clock, in ticks
    tool,             \* the OpenSCAD installation: "missing", "ok", "fail", "any"
    readme,           \* README.md exists in the working directory
    dirs,             \* names of the release directories that exist
    files,            \* paths of the files that exist under releases/
    runs,             \* the runs started so far: [start, name, fresh, made]
    pc,               \* position of the running process
    release_name,     \* main: release_name
    pos,              \* the loop position <<i, j>> of the running loop
    counts,           \* <<success_count, fail_count>> of the running loop
    button,           \* main: <<button_success, button_fail>>
    cylinder,         \* main: <<cylinder_success, cylinder_fail>>
    invocations,      \* the run_openscad calls of this run, in order
    scad_todo,        \* the glob results not copied yet
    manifest,         \* the manifest text written by this run, <<>> if none
    fault,            \* the file operation that failed, <<>> if none
    returned          \* <<status>> once main has returned, else <<>>

vars == <<clock, tool, readme, dirs, files, runs, pc, release_name, pos,
          counts, button, cylinder, invocations, scad_todo, manifest,
          fault, returned>>

\* a plausible slip: the file count is taken from what succeeded
ManifestFiguresFromCounts ==
    [types |-> Len(BUTTON_CELL_COMPAT) + Len(CYLINDER_COMPAT),
     total |-> button[1] + cylinder[1]]

\* lines 126-127: the figures are computed from the tables
ManifestFigures ==
    [types |-> Len(BUTTON_CELL_COMPAT) + Len(CYLINDER_COMPAT),
     total |-> SumHosts(BUTTON_CELL_COMPAT) + SumHosts(CYLINDER_COMPAT)]

\* create_manifest: the text written to MANIFEST.txt
ManifestText(t) ==
    [generated |-> t \div TicksPerSecond,
     listing |-> ManifestListing,
     types |-> ManifestFigures.types,
     total |-> ManifestFigures.total]

\* the state of a process at its start, before main runs
Fresh ==
    /\ pc = "main"
    /\ release_name = ""
    /\ pos = <<1, 1>>
    /\ counts = <<0, 0>>
    /\ button = <<0, 0>>
    /\ cylinder = <<0, 0>>
    /\ invocations = <<>>
    /\ scad_todo = {}
    /\ manifest = <<>>
    /\ fault = <<>>
    /\ returned = <<>>

InitFs ==
    /\ clock = 0
    /\ readme \in BOOLEAN
    /\ dirs = {}
    /\ files = {}
    /\ runs = <<>>

Init ==
    /\ tool \in {"missing", "ok", "fail", "any"}
    /\ InitFs
    /\ Fresh

\* the wall clock advances
Tick ==
    /\ clock < MaxClock
    /\ clock' = clock + 1
    /\ UNCHANGED <<tool, readme, dirs, files, runs, pc, release_name, pos,
                   counts, button, cylinder, invocations, scad_todo,
                   manifest, fault, returned>>

\* lines 135-142: name the release and create releases/<name>/stls
\* (mkdir(parents=True, exist_ok=True): an existing directory is no error)
Start ==
    /\ pc = "main"
    /\ release_name' = ReleaseName(clock)
    /\ \E ok \in BOOLEAN :
         /\ runs' = Append(runs, [start |-> clock, name |-> ReleaseName(clock),
                                  fresh |-> ReleaseName(clock) \notin dirs,
                                  made |-> ok])
         /\ pc' = Uncaught(ok, "button")
         /\ dirs' = IF ok THEN dirs \cup {ReleaseName(clock)} ELSE dirs
         /\ fault' = IF ok THEN fault ELSE <<"mkdir">>
    /\ pos' = FirstFrom(BUTTON_CELL_COMPAT, 1)
    /\ counts' = <<0, 0>>
    /\ UNCHANGED <<clock, tool, readme, files, button, cylinder, invocations,
                   scad_todo, manifest, returned>>

\* one pass of the inner loop body (lines 50-66 and 79-95): build the output
\* name and the parameters, call run_openscad, tally the result
LoopBody(table, scad_file) ==
    /\ ~AtEnd(table, pos)
    /\ LET battery == BatteryAt(table, pos[1])
           host == HostsAt(table, pos[1])[pos[2]]
           output_file == StlDir(release_name) \o <<OutputName(battery, host)>>
       IN \E answer \in Answers(tool) :
            LET r == run_openscad(answer) IN
            /\ invocations' = Append(invocations,
                   [cmd |-> Cmd(<<scad_file>>, output_file, ParamsFor(table, battery, host)),
                    out |-> output_file[Len(output_file)],
                    answer |-> answer])
            \* OpenSCAD writes the output file when it exits with status 0
            /\ files' = IF answer = "exit0" THEN files \cup {output_file} ELSE files
            /\ IF r[1] = "raise"
               THEN /\ pc' = "aborted"
                    /\ UNCHANGED <<pos, counts>>
               ELSE /\ pc' = pc
                    /\ counts' = Tally(r[2], counts)
                    /\ pos' = NextPos(table, pos)
    /\ UNCHANGED <<clock, tool, readme, dirs, runs, release_name, button,
                   cylinder, scad_todo, manifest, fault, returned>>

\* generate_button_cell_stls, one iteration
ButtonInvoke ==
    /\ pc = "button"
    /\ LoopBody(BUTTON_CELL_COMPAT, "button_cell_adapter.scad")

\* line 68 and lines 145-147: the button loop returns, the cylinder loop starts
ButtonReturn ==
    /\ pc = "button"
    /\ AtEnd(BUTTON_CELL_COMPAT, pos)
    /\ button' = counts
    /\ pc' = "cylinder"
    /\ pos' = FirstFrom(CYLINDER_COMPAT, 1)
    /\ counts' = <<0, 0>>
    /\ UNCHANGED <<clock, tool, readme, dirs, files, runs, release_name,
                   cylinder, invocations, scad_todo, manifest, fault, returned>>

\* generate_cylinder_stls, one iteration
CylinderInvoke ==
    /\ pc = "cylinder"
    /\ LoopBody(CYLINDER_COMPAT, "cylinder_battery_adapter.scad")

\* line 97 and lines 147-151: the cylinder loop returns, the glob is taken
CylinderReturn ==
    /\ pc = "cylinder"
    /\ AtEnd(CYLINDER_COMPAT, pos)
    /\ cylinder' = counts
    /\ pc' = "copy"
    /\ scad_todo' = ScadFiles
    /\ UNCHANGED <<clock, tool, readme, dirs, files, runs, release_name, pos,
                   counts, button, invocations, manifest, fault, returned>>

\* lines 151-154: copy one .scad file (the glob order is not specified)
CopyScad ==
    /\ pc = "copy"
    /\ \E f \in scad_todo, ok \in BOOLEAN :
         /\ pc' = Uncaught(ok, "copy")
         /\ scad_todo' = scad_todo \ {f}
         /\ files' = IF ok THEN files \cup {ReleaseDir(release_name) \o <<f>>}
                     ELSE files
         /\ fault' = IF ok THEN fault ELSE <<"copy", f>>
    /\ UNCHANGED <<clock, tool, readme, dirs, runs, release_name, pos, counts,
                   button, cylinder, invocations, manifest, returned>>

\* lines 156-159: copy README.md if it exists
CopyReadme ==
    /\ pc = "copy"
    /\ scad_todo = {}
    /\ IF readme
       THEN \E ok \in BOOLEAN :
              /\ pc' = Uncaught(ok, "manifest")
              /\ files' = IF ok
                          THEN files \cup {ReleaseDir(release_name) \o <<"README.md">>}
                          ELSE files
              /\ fault' = IF ok THEN fault ELSE <<"copy", "README.md">>
       ELSE /\ pc' = "manifest"
            /\ UNCHANGED <<files, fault>>
    /\ UNCHANGED <<clock, tool, readme, dirs, runs, release_name, pos, counts,
                   button, cylinder, invocations, scad_todo, manifest, returned>>

\* line 162: create_manifest(release_dir)
CreateManifest ==
    /\ pc = "manifest"
    /\ \E ok \in BOOLEAN :
         /\ pc' = Uncaught(ok, "summary")
         /\ manifest' = IF ok THEN <<ManifestText(clock)>> ELSE manifest
         /\ files' = IF ok
                     THEN files \cup {ReleaseDir(release_name) \o <<"MANIFEST.txt">>}
                     ELSE files
         /\ fault' = IF ok THEN fault ELSE <<"write", "MANIFEST.txt">>
    /\ UNCHANGED <<clock, tool, readme, dirs, runs, release_name, pos, counts,
                   button, cylinder, invocations, scad_todo, returned>>

\* lines 164-175: the summary and the exit status
Return ==
    /\ pc = "summary"
    /\ returned' = <<ExitStatus(button[2] + cylinder[2])>>
    /\ pc' = "exited"
    /\ UNCHANGED <<clock, tool, readme, dirs, files, runs, release_name, pos,
                   counts, button, cylinder, invocations, scad_todo, manifest,
                   fault>>

\* the process is started again after the previous run has ended
NewProcess ==
    /\ pc \in {"exited", "aborted"}
    /\ Len(runs) < MaxRuns
    /\ pc' = "main"
    /\ release_name' = ""
    /\ pos' = <<1, 1>>
    /\ counts' = <<0, 0>>
    /\ button' = <<0, 0>>
    /\ cylinder' = <<0, 0>>
    /\ invocations' = <<>>
    /\ scad_todo' = {}
    /\ manifest' = <<>>
    /\ fault' = <<>>
    /\ returned' = <<>>
    /\ UNCHANGED <<clock, tool, readme, dirs, files, runs>>

Run ==
    \/ Start
    \/ ButtonInvoke
    \/ ButtonReturn
    \/ CylinderInvoke
    \/ CylinderReturn
    \/ CopyScad
    \/ CopyReadme
    \/ CreateManifest
    \/ Return

\* one run of the process, every answer of the tool and of the file system
Next == Run

Spec == Init /\ [][Next]_vars

\* runs started one after the other; the installation answers uniformly
InitRuns ==
    /\ tool \in {"missing", "ok", "fail"}
    /\ InitFs
    /\ Fresh

NextRuns == Run \/ Tick \/ NewProcess

SpecRuns == InitRuns /\ [][NextRuns]_vars

(***************************************************************************)
(* Vocabulary of the properties.                                           *)
(***************************************************************************)
\* the file names a table calls for, in table order
RECURSIVE HostNames(_, _)
HostNames(battery, hosts) ==
    IF Len(hosts) = 0 THEN <<>>
    ELSE <<battery \o "-" \o hosts[1] \o ".stl">> \o HostNames(battery, Tail(hosts))

RECURSIVE TableNames(_)
TableNames(table) ==
    IF Len(table) = 0 THEN <<>>
    ELSE HostNames(table[1][1], table[1][2]) \o TableNames(Tail(table))

ExpectedNames == TableNames(BUTTON_CELL_COMPAT) \o TableNames(CYLINDER_COMPAT)

Range(seq) == {seq[k] : k \in DOMAIN seq}

\* the output names of the invocations made so far, in order
Outs == [k \in DOMAIN invocations |-> invocations[k].out]

\* the invocations that were answered with a nonzero exit
Failed == {k \in DOMAIN invocations : invocations[k].answer = "nonzero"}

\* the invocations of the button loop (by the template on the command line)
OfButton(k) ==
    invocations[k].cmd[Len(invocations[k].cmd)] = "button_cell_adapter.scad"

\* the files of the stls directory of a release
StlFilesIn(name) ==
    {f \in files : Len(f) = 4 /\ f[2] = name /\ f[3] = "stls"}

IsPrefix(s, t) == Len(s) <= Len(t) /\ \A k \in DOMAIN s : s[k] = t[k]

\* main has passed the button loop, respectively both loops
ButtonLoopDone == pc \in {"cylinder", "copy", "manifest", "summary", "exited"}
BothLoopsDone == pc \in {"copy", "manifest", "summary", "exited"}

(***************************************************************************)
(* C1                                                                      *)
(***************************************************************************)
\* C1: a run of main() that reaches its end returns 0 or 1, and nothing
\* else; it returns 0 exactly when every one of the 13 generation attempts
\* succeeded and 1 exactly when at least one attempt failed.
C1_ExitStatus ==
    pc = "exited" =>
        /\ Len(invocations) = 13
        /\ returned \in {<<0>>, <<1>>}
        /\ (returned = <<0>>) <=> (Failed = {})
        /\ (returned = <<1>>) <=> (Failed # {})

C1_Witness ==
    /\ pc = "exited"
    /\ returned = <<1>>
    /\ Cardinality(Failed) = 2
    /\ invocations[1].answer = "exit0"

(***************************************************************************)
(* C2                                                                      *)
(***************************************************************************)
\* C2: when every invocation succeeds and writes its output file, a full
\* run leaves exactly 13 files (the sum of the host-list lengths of both
\* tables) in the release's stls directory, no two pairs share a file name,
\* and the exit status is 0.
C2_AllSucceed ==
    (pc = "exited" /\ Failed = {}) =>
        /\ Cardinality(StlFilesIn(release_name)) = 13
        /\ Cardinality(StlFilesIn(release_name))
             = SumHosts(BUTTON_CELL_COMPAT) + SumHosts(CYLINDER_COMPAT)
        /\ \A k1, k2 \in DOMAIN invocations :
             k1 # k2 => invocations[k1].out # invocations[k2].out
        /\ StlFilesIn(release_name)
             = {StlDir(release_name) \o <<n>> : n \in Range(ExpectedNames)}
        /\ returned = <<0>>

C2_Witness ==
    /\ pc = "exited"
    /\ tool = "ok"
    /\ Failed = {}
    /\ Cardinality(StlFilesIn(release_name)) = 13

(***************************************************************************)
(* C3                                                                      *)
(***************************************************************************)
\* C3: when exactly one pair fails and all others succeed, whichever pair
\* it is, the exit status is 1, the failure counter of that pair's class is
\* 1, the failure counter of the other class is 0, and each class's success
\* counter is its number of pairs minus its failure counter.
C3_OneFailure ==
    (pc = "exited" /\ Cardinality(Failed) = 1) =>
        /\ returned = <<1>>
        /\ \A k \in Failed :
             IF OfButton(k)
             THEN button[2] = 1 /\ cylinder[2] = 0
             ELSE button[2] = 0 /\ cylinder[2] = 1
        /\ button[1] = SumHosts(BUTTON_CELL_COMPAT) - button[2]
        /\ cylinder[1] = SumHosts(CYLINDER_COMPAT) - cylinder[2]

C3_Witness ==
    /\ pc = "exited"
    /\ Failed = {11}
    /\ invocations[11].out = "A27-C.stl"
    /\ cylinder = <<3, 1>>
    /\ button = <<9, 0>>

(***************************************************************************)
(* C4                                                                      *)
(***************************************************************************)
\* C4: each loop attempts every (battery, host) pair of its table exactly
\* once, in table order, under the name "{battery}-{host}.stl": 9 attempts
\* for the button cells and 4 for the cylinders, and at the end of a loop
\* success_count + fail_count is the number of its attempts.
C4_OneAttemptPerPair ==
    /\ IsPrefix(Outs, ExpectedNames)
    /\ ButtonLoopDone =>
         /\ SubSeq(Outs, 1, 9) = TableNames(BUTTON_CELL_COMPAT)
         /\ SumHosts(BUTTON_CELL_COMPAT) = 9
         /\ \A k \in 1..9 : OfButton(k)
         /\ button[1] + button[2] = 9
    /\ BothLoopsDone =>
         /\ Len(Outs) = 13
         /\ SubSeq(Outs, 10, 13) = TableNames(CYLINDER_COMPAT)
         /\ SumHosts(CYLINDER_COMPAT) = 4
         /\ \A k \in 10..13 : ~OfButton(k)
         /\ cylinder[1] + cylinder[2] = 4

C4_Witness ==
    /\ pc = "copy"
    /\ Len(invocations) = 13
    /\ Outs[2] = "CR2032-D.stl"
    /\ Outs[13] = "AAAA-C.stl"
    /\ button[2] > 0
    /\ cylinder[1] > 0

(***************************************************************************)
(* C5                                                                      *)
(***************************************************************************)
\* the failures counted so far by the loops
CountedFails ==
    IF pc = "button" THEN counts[2]
    ELSE IF pc = "cylinder" THEN button[2] + counts[2]
    ELSE button[2] + cylinder[2]

\* C5: a nonzero exit of the tool never stops the run: a run ends
\* abnormally only on a file-system error or a missing executable; every
\* failure is counted once and the pair is not retried; the remaining pairs
\* of both tables are still attempted once each, and a run that returns has
\* copied the sources and written the manifest whatever failed.
C5_FailOpen ==
    /\ pc = "aborted" =>
         \/ fault # <<>>
         \/ /\ invocations # <<>>
            /\ invocations[Len(invocations)].answer = "notfound"
    /\ pc # "aborted" => CountedFails = Cardinality(Failed)
    /\ IsPrefix(Outs, ExpectedNames)
    /\ pc \in {"summary", "exited"} =>
         /\ Outs = ExpectedNames
         /\ manifest # <<>>
         /\ ReleaseDir(release_name) \o <<"MANIFEST.txt">> \in files
         /\ \A f \in ScadFiles : ReleaseDir(release_name) \o <<f>> \in files

C5_Witness ==
    /\ pc = "exited"
    /\ Failed = {1, 2, 10}
    /\ Len(invocations) = 13
    /\ manifest # <<>>

(***************************************************************************)
(* C6                                                                      *)
(***************************************************************************)
\* C6: when the openscad executable is missing, every attempt is reported
\* as a per-pair failure: the run is never ended by the tool's error, and it
\* returns exit status 1 after 13 attempts counted as 13 failures.
C6_MissingToolCounted ==
    tool = "missing" =>
        /\ pc = "aborted" => fault # <<>>
        /\ pc = "exited" =>
             /\ Len(invocations) = 13
             /\ button[2] + cylinder[2] = 13
             /\ returned = <<1>>

(***************************************************************************)
(* C7                                                                      *)
(***************************************************************************)
\* the wall-clock second in which a run started
StartSecond(r) == runs[r].start \div TicksPerSecond

\* the runs that created (or found) their release directory
Made == {r \in DOMAIN runs : runs[r].made}

\* C7 as stated: any two runs started one after the other, however close in
\* time, create two distinct release directories; no run reuses a directory
\* that an earlier run created.
C7_AlwaysDistinct ==
    /\ \A r1, r2 \in Made : r1 # r2 => runs[r1].name # runs[r2].name
    /\ \A r \in Made : runs[r].fresh

\* C7 amended: two runs started in different wall-clock seconds create two
\* distinct release directories, and a run whose second no earlier run
\* shares starts from a directory that did not exist; two runs started
\* within the same wall-clock second use the same directory.
C7_DistinctAcrossSeconds ==
    /\ \A r1, r2 \in Made :
         (StartSecond(r1) # StartSecond(r2)) <=> (runs[r1].name # runs[r2].name)
    /\ \A r \in Made :
         runs[r].fresh <=>
             \A q \in Made : q < r => StartSecond(q) # StartSecond(r)
    /\ \A r \in Made : runs[r].name \in dirs

C7_Witness ==
    /\ Len(runs) = 2
    /\ Made = {1, 2}
    /\ StartSecond(1) # StartSecond(2)
    /\ runs[1].name # runs[2].name
    /\ runs[2].fresh
    /\ pc = "exited"
    /\ StlFilesIn(runs[1].name) # {}
    /\ StlFilesIn(runs[2].name) # {}

(***************************************************************************)
(* C8                                                                      *)
(***************************************************************************)
\* C8: the manifest reports len(BUTTON_CELL_COMPAT) + len(CYLINDER_COMPAT)
\* battery types and the sum of the host-list lengths of both tables as the
\* file count, whatever succeeded or failed in the run.
C8_ManifestFigures ==
    manifest # <<>> =>
        /\ manifest[1].types = Len(BUTTON_CELL_COMPAT) + Len(CYLINDER_COMPAT)
        /\ manifest[1].total = Len(ExpectedNames)
        /\ manifest[1].total = Len(invocations)

C8_Witness ==
    /\ manifest # <<>>
    /\ Cardinality(Failed) = 3
    /\ manifest[1].total = 13
    /\ manifest[1].types = 7
    /\ button[1] + cylinder[1] = 10

(***************************************************************************)
(* C9                                                                      *)
(***************************************************************************)
\* the file names listed in the static text of a manifest
Listed(text) == UNION {Range(text.listing[l]) : l \in DOMAIN text.listing}

\* C9: the file names listed in the manifest text are exactly the file
\* names the loops attempt from the two tables, so the number of listed
\* files is the manifest's reported total file count.
C9_ListingMatchesTables ==
    manifest # <<>> =>
        /\ Listed(manifest[1]) = Range(ExpectedNames)
        /\ Listed(manifest[1]) = Range(Outs)
        /\ Cardinality(Listed(manifest[1])) = manifest[1].total

(***************************************************************************)
(* C10                                                                     *)
(***************************************************************************)
\* a file-system error in mkdir or in a copy has happened
CopyOrMkdirFault == fault # <<>> /\ fault[1] \in {"mkdir", "copy"}

\* C10: a file-system error in the directory creation or in a copy ends the
\* run at that step: nothing runs afterwards (no further copy, no
\* MANIFEST.txt, no exit status), and what was written before the error
\* stays in place.
C10_UncaughtFsError ==
    CopyOrMkdirFault =>
        /\ pc = "aborted"
        /\ returned = <<>>
        /\ manifest = <<>>
        /\ ReleaseDir(release_name) \o <<"MANIFEST.txt">> \notin files
        /\ fault[1] = "mkdir" => invocations = <<>> /\ files = {}
        /\ fault[1] = "copy" =>
             /\ release_name \in dirs
             /\ Len(invocations) = 13
             \* no further copy: the files not yet copied stay uncopied
             /\ \A f \in scad_todo \cup {fault[2]} :
                  ReleaseDir(release_name) \o <<f>> \notin files
             /\ fault[2] # "README.md" =>
                  ReleaseDir(release_name) \o <<"README.md">> \notin files
             \* no rollback: the earlier copies and the STL files remain
             /\ \A f \in ScadFiles \ (scad_todo \cup {fault[2]}) :
                  ReleaseDir(release_name) \o <<f>> \in files
        /\ \A k \in DOMAIN invocations :
             invocations[k].answer = "exit0" =>
                 StlDir(release_name) \o <<invocations[k].out>> \in files

C10_Witness ==
    /\ fault = <<"copy", "cylinder_battery_adapter.scad">>
    /\ pc = "aborted"
    /\ scad_todo = {}
    /\ ReleaseDir(release_name) \o <<"button_cell_adapter.scad">> \in files
    /\ Cardinality(StlFilesIn(release_name)) = 12

====
